---- MODULE Spec2Model ----
(***************************************************************************)
(* iptables_exporter: the Prometheus collector of iptables_exporter.go.    *)
(*                                                                         *)
(* Two specifications:                                                     *)
(*   Spec      the process: main, NewCollector, and Collect calls run by   *)
(*             two scrape goroutines, one statement group per step;        *)
(*   FoldSpec  the per-chain aggregation of Collect (lines 135-166) as a   *)
(*             function of one chain, over a wide range of chains.         *)
(***************************************************************************)
EXTENDS Integers, Sequences, FiniteSets, TLC

(***************************************************************************)
(* Numbers.  Rule and chain counters are uint64 and Collect converts each  *)
(* to float64 before it adds or emits it.  TLC's integers are 32 bits      *)
(* wide, so a number is held as [hi, lo], meaning hi * 2^53 + lo, with lo  *)
(* far below 2^53.  Every float64 this program computes is a non-negative  *)
(* integer, so the same shape holds a float64 value.                       *)
(***************************************************************************)

\* Bound: the low part of an input counter is 1..MaxLo.
MaxLo == 2

\* Bound: a chain holds at most MaxRules rules (FoldSpec).
MaxRules == 3

\* Bound: the number of Collect calls in one run of Spec.
MaxScrapes == 2

Num(h, l) == [hi |-> h, lo |-> l]

Zero == Num(0, 0)

One == Num(0, 1)

RECURSIVE Pow2Floor(_)
\* The largest power of two that is <= n, for n >= 1.
Pow2Floor(n) == IF n <= 1 THEN 1 ELSE 2 * Pow2Floor(n \div 2)

\* The spacing of float64 values around hi * 2^53 + lo: 1 below 2^53 (53-bit
\* significand), 2 in [2^53, 2^54), 4 in [2^54, 2^55), ...
Ulp(h) == IF h = 0 THEN 1 ELSE 2 * Pow2Floor(h)

\* IEEE-754 round to nearest, ties to the even significand.  hi * 2^53 is a
\* multiple of 2 * Ulp(hi), so the significand's parity is that of lo \div Ulp.
RoundNearestEven(x) ==
    LET u == Ulp(x.hi)
        q == x.lo \div u
        r == x.lo % u
        up == \/ 2 * r > u
              \/ 2 * r = u /\ q % 2 = 1
    IN  Num(x.hi, IF up THEN (q + 1) * u ELSE q * u)

\* float64(n) for a uint64 n.
Float64(n) == RoundNearestEven(n)

\* x + y on float64 values: the exact sum, rounded.
FAdd(x, y) == RoundNearestEven(Num(x.hi + y.hi, x.lo + y.lo))

\* Exact (unrounded) integer addition and order, used to state the claims.
IntAdd(x, y) == Num(x.hi + y.hi, x.lo + y.lo)

IntLeq(x, y) == x.hi < y.hi \/ (x.hi = y.hi /\ x.lo <= y.lo)

(***************************************************************************)
(* The capture expression.  A regular expression is a sequence of tokens:  *)
(* "(" and ")" (a capturing group), ".*", or a literal word.               *)
(***************************************************************************)

\* kingpin's default for --iptables.capture-re.
DefaultCaptureRE == <<".*">>

\* The capture expressions tried: the default, a literal, a group, and one
\* that does not compile (an unclosed group).
CaptureREs == {DefaultCaptureRE, <<"allow">>, <<"(", "allow", ")">>, <<"(", "allow">>}

RECURSIVE ParenDepth(_, _)
\* The nesting depth after reading re from depth d; -1 once a ")" has no "(".
ParenDepth(re, d) ==
    IF d < 0 \/ re = <<>> THEN d
    ELSE ParenDepth(Tail(re), CASE Head(re) = "(" -> d + 1
                                [] Head(re) = ")" -> d - 1
                                [] OTHER -> d)

\* regexp.Compile's verdict on the tokens above: groups must balance.
RegexpValid(re) == ParenDepth(re, 0) = 0

\* A mutant: regexp.Compile with its error dropped instead of MustCompile.
CompileIgnoringError(re) == [panic |-> FALSE, re |-> re]

\* regexp.MustCompile: the compiled expression, or a panic.
MustCompile(re) == [panic |-> ~RegexpValid(re), re |-> re]

(***************************************************************************)
(* iptables.GetTables and its types: package iptables is not among the     *)
(* sources; it is modelled from the specification (sections 3, 4.1, 4.2).  *)
(***************************************************************************)

\* Rule bodies as iptables-save prints them, one word per token.
Bodies == {<<"allow", "A">>, <<"allow", "B">>, <<"deny", "C">>}

\* Counter pairs of a rule: Packets is 1..MaxLo; Bytes is the same number,
\* or that number plus 2^53 (a byte counter beyond float64's exact range).
CounterPairs ==
    {[Packets |-> Num(0, l), Bytes |-> Num(h, l)] : l \in 1..MaxLo, h \in 0..1}

RawRules ==
    {[Body |-> b, Packets |-> c.Packets, Bytes |-> c.Bytes] :
        b \in Bodies, c \in CounterPairs}

\* The expression with its group marks removed: what it matches.
StripGroups(re) == SelectSeq(re, LAMBDA t : t \notin {"(", ")"})

\* Whether the literal words lit occur in body at position i.
OccursAt(lit, body, i) ==
    /\ i + Len(lit) - 1 <= Len(body)
    /\ \A j \in 1..Len(lit) : body[i + j - 1] = lit[j]

\* Whether the compiled expression matches the rule body.
Matches(re, body) ==
    \/ StripGroups(re) = <<".*">>
    \/ \E i \in 1..Len(body) : OccursAt(StripGroups(re), body, i)

\* The identifier of a matched rule body: the matched text.
Identifier(re, body) ==
    IF StripGroups(re) = <<".*">> THEN body ELSE StripGroups(re)

RECURSIVE CaptureRules(_, _)
\* chain.Rules: the rules the expression matches, in dump order, each with
\* its identifier; a rule it does not match is left out.
CaptureRules(re, raws) ==
    IF raws = <<>> THEN <<>>
    ELSE LET r == Head(raws)
             rest == CaptureRules(re, Tail(raws))
         IN  IF Matches(re, r.Body)
             THEN <<[Rule |-> Identifier(re, r.Body),
                     Packets |-> r.Packets, Bytes |-> r.Bytes]>> \o rest
             ELSE rest

(***************************************************************************)
(* Collect, lines 135-166: the aggregation of one chain.                   *)
(***************************************************************************)

\* make(ruleCounter): a map with no key.
MakeRuleCounter == [k \in {} |-> [bytes |-> Zero, packets |-> Zero]]

\* A mutant: "=" for "+=", the last rule of an identifier wins.
MergeRuleOverwrite(rc, rule) ==
    [k \in DOMAIN rc \cup {rule.Rule} |->
        IF k = rule.Rule
        THEN [bytes |-> Float64(rule.Bytes), packets |-> Float64(rule.Packets)]
        ELSE rc[k]]

\* One iteration of the loop over chain.Rules (lines 138-147).
MergeRule(rc, rule) ==
    IF rule.Rule \in DOMAIN rc
    THEN [rc EXCEPT ![rule.Rule] =
            [bytes |-> FAdd(@.bytes, Float64(rule.Bytes)),
             packets |-> FAdd(@.packets, Float64(rule.Packets))]]
    ELSE [k \in DOMAIN rc \cup {rule.Rule} |->
            IF k = rule.Rule
            THEN [bytes |-> Float64(rule.Bytes), packets |-> Float64(rule.Packets)]
            ELSE rc[k]]

RECURSIVE FoldRules(_, _)
\* The loop over chain.Rules from accumulator rc, in slice order.
FoldRules(rc, rules) ==
    IF rules = <<>> THEN rc ELSE FoldRules(MergeRule(rc, Head(rules)), Tail(rules))

\* A mutant: the loop starts at the second rule.
DedupRulesSkipFirst(rules) ==
    IF rules = <<>> THEN MakeRuleCounter ELSE FoldRules(MakeRuleCounter, Tail(rules))

\* rulesCounters after the dedup loop (lines 136-148).
DedupRules(rules) == FoldRules(MakeRuleCounter, rules)

\* A constant metric: its descriptor, label values and value.
Metric(d, l, v) == [desc |-> d, labels |-> l, value |-> v]

\* The two metrics sent for one key of rulesCounters (lines 150-165).
RuleMetrics(tableName, chainName, ruleName, ruleData) ==
    << Metric("iptables_rule_packets_total",
              [table |-> tableName, chain |-> chainName, rule |-> ruleName],
              ruleData.packets),
       Metric("iptables_rule_bytes_total",
              [table |-> tableName, chain |-> chainName, rule |-> ruleName],
              ruleData.bytes) >>

\* A mutant: the bytes descriptor pasted into the packets metric.
DefaultMetricsPasted(tableName, chainName, chain) ==
    << Metric("iptables_default_bytes_total",
              [table |-> tableName, chain |-> chainName, policy |-> chain.Policy],
              Float64(chain.Packets)),
       Metric("iptables_default_bytes_total",
              [table |-> tableName, chain |-> chainName, policy |-> chain.Policy],
              Float64(chain.Bytes)) >>

\* The two metrics sent for a chain's default policy (lines 119-134).
DefaultMetrics(tableName, chainName, chain) ==
    << Metric("iptables_default_packets_total",
              [table |-> tableName, chain |-> chainName, policy |-> chain.Policy],
              Float64(chain.Packets)),
       Metric("iptables_default_bytes_total",
              [table |-> tableName, chain |-> chainName, policy |-> chain.Policy],
              Float64(chain.Bytes)) >>

\* The scrape-duration metric (line 109); its value is the measured time.
DurationMetric == Metric("iptables_scrape_duration_seconds", <<>>, "seconds")

\* The scrape-success metric (lines 111 and 115).
SuccessMetric(ok) ==
    Metric("iptables_scrape_success", <<>>, IF ok THEN One ELSE Zero)

(***************************************************************************)
(* What iptables-save hands to a scrape.                                   *)
(***************************************************************************)

RawRule(b, p, by) == [Body |-> b, Packets |-> p, Bytes |-> by]

RawChain(pol, p, by, rs) == [Policy |-> pol, Packets |-> p, Bytes |-> by, Rules |-> rs]

\* Three rules, two of them with one body; one byte counter beyond 2^53.
ChainIn ==
    RawChain("ACCEPT", Num(0, 3), Num(1, 3),
             << RawRule(<<"allow", "A">>, Num(0, 1), Num(1, 1)),
                RawRule(<<"allow", "B">>, Num(0, 1), Num(0, 1)),
                RawRule(<<"allow", "A">>, Num(0, 2), Num(0, 2)) >>)

ChainOut ==
    RawChain("DROP", Num(0, 1), Num(0, 2),
             << RawRule(<<"deny", "C">>, Num(0, 2), Num(0, 1)),
                RawRule(<<"allow", "A">>, Num(0, 1), Num(0, 2)) >>)

\* A user-defined chain: no policy, no rule.
ChainUser == RawChain("-", Zero, Zero, <<>>)

NoTables == [t \in {} |-> [c \in {} |-> ChainUser]]

\* One table with two chains.
DumpOneTable ==
    [t \in {"filter"} |-> [c \in {"INPUT", "OUTPUT"} |->
        IF c = "INPUT" THEN ChainIn ELSE ChainOut]]

\* Two tables, each with a chain INPUT that holds a rule "allow A".
DumpTwoTables ==
    [t \in {"filter", "nat"} |->
        IF t = "filter" THEN [c \in {"INPUT"} |-> ChainOut]
        ELSE [c \in {"INPUT", "LOG"} |-> IF c = "INPUT" THEN ChainIn ELSE ChainUser]]

\* What one scrape reads: a malformed dump, no output, or a dump.
Inputs ==
    { [kind |-> "malformed", tables |-> NoTables],
      [kind |-> "dump", tables |-> NoTables],
      [kind |-> "dump", tables |-> DumpOneTable],
      [kind |-> "dump", tables |-> DumpTwoTables] }

\* A parsed chain: the raw chain with chain.Rules derived by the expression.
CaptureChain(re, raw) ==
    [Policy |-> raw.Policy, Packets |-> raw.Packets, Bytes |-> raw.Bytes,
     Rules |-> CaptureRules(re, raw.Rules)]

\* iptables.GetTables(c.capture): an error for a dump that does not parse,
\* otherwise the tables with every chain's rules identified.
GetTables(re, in) ==
    IF in.kind = "malformed"
    THEN [err |-> "parse", tables |-> NoTables]
    ELSE [err |-> "nil",
          tables |-> [t \in DOMAIN in.tables |->
                        [c \in DOMAIN in.tables[t] |->
                            CaptureChain(re, in.tables[t][c])]]]

(***************************************************************************)
(* State.                                                                  *)
(***************************************************************************)

\* The goroutines promhttp runs Collect on: two scrapes may overlap.
Procs == {1, 2}

VARIABLES
    mainPc,         \* main's position: start, constructed, registered,
                    \* listening, or panicked
    captureRE,      \* the --iptables.capture-re flag
    capture,        \* collector.capture: <<>> (nil) or <<the compiled expression>>
    scrapes,        \* Collect calls started so far
    failures,       \* Collect calls that returned after sending scrape-success 0
    pc,             \* per goroutine: Collect's position
    input,          \* per goroutine: what iptables-save printed for this call
    tables,         \* per goroutine: local tables
    err,            \* per goroutine: local err
    metricChan,     \* per goroutine: what this call sent on its metricChan
    tablesLeft,     \* per goroutine: keys the range over tables has yet to visit
    tableName,      \* per goroutine: local tableName
    chainsLeft,     \* per goroutine: keys the range over table has yet to visit
    chainName,      \* per goroutine: local chainName
    ruleIdx,        \* per goroutine: index of the range over chain.Rules
    rulesCounters,  \* per goroutine: local rulesCounters
    keysLeft,       \* per goroutine: keys the range over rulesCounters has yet to visit
    fCapture,       \* FoldSpec: the compiled expression
    fRaw,           \* FoldSpec: the chain's rules as dumped
    fRules,         \* FoldSpec: chain.Rules
    fCounters,      \* FoldSpec: rulesCounters
    fSent,          \* FoldSpec: the metrics sent for the chain's rules
    fPc             \* FoldSpec: dumped, parsed, deduped, sent

mainVars == <<mainPc, captureRE, capture, scrapes, failures>>

callVars ==
    <<pc, input, tables, err, metricChan, tablesLeft, tableName, chainsLeft,
      chainName, ruleIdx, rulesCounters, keysLeft>>

loopVars == <<tablesLeft, tableName, chainsLeft, chainName, ruleIdx, rulesCounters, keysLeft>>

foldVars == <<fCapture, fRaw, fRules, fCounters, fSent, fPc>>

vars == <<mainVars, callVars, foldVars>>

\* The process before main runs: no collector, no call in progress.
ProcessInit ==
    /\ mainPc = "start"
    /\ capture = <<>>
    /\ scrapes = 0
    /\ failures = 0
    /\ pc = [p \in Procs |-> "idle"]
    /\ input = [p \in Procs |-> [kind |-> "dump", tables |-> NoTables]]
    /\ tables = [p \in Procs |-> NoTables]
    /\ err = [p \in Procs |-> "nil"]
    /\ metricChan = [p \in Procs |-> <<>>]
    /\ tablesLeft = [p \in Procs |-> {}]
    /\ tableName = [p \in Procs |-> ""]
    /\ chainsLeft = [p \in Procs |-> {}]
    /\ chainName = [p \in Procs |-> ""]
    /\ ruleIdx = [p \in Procs |-> 0]
    /\ rulesCounters = [p \in Procs |-> MakeRuleCounter]
    /\ keysLeft = [p \in Procs |-> {}]

FoldIdle ==
    /\ fCapture = DefaultCaptureRE
    /\ fRaw = <<>>
    /\ fRules = <<>>
    /\ fCounters = MakeRuleCounter
    /\ fSent = {}
    /\ fPc = "dumped"

Init ==
    /\ captureRE \in CaptureREs
    /\ ProcessInit
    /\ FoldIdle

(***************************************************************************)
(* main (lines 171-207).                                                   *)
(***************************************************************************)

\* c := NewCollector(*captureRE), lines 86-91 and 188: MustCompile panics on
\* an expression that does not compile, and the process ends.
NewCollector ==
    /\ mainPc = "start"
    /\ LET c == MustCompile(captureRE)
       IN  IF c.panic
           THEN /\ mainPc' = "panicked"
                /\ UNCHANGED capture
           ELSE /\ mainPc' = "constructed"
                /\ capture' = <<c.re>>
    /\ UNCHANGED <<captureRE, scrapes, failures, callVars, foldVars>>

\* prometheus.MustRegister(&c), line 189.
Register ==
    /\ mainPc = "constructed"
    /\ mainPc' = "registered"
    /\ UNCHANGED <<captureRE, capture, scrapes, failures, callVars, foldVars>>

\* http.ListenAndServe, line 203: from here on scrapes are served.
ListenAndServe ==
    /\ mainPc = "registered"
    /\ mainPc' = "listening"
    /\ UNCHANGED <<captureRE, capture, scrapes, failures, callVars, foldVars>>

(***************************************************************************)
(* Collect (lines 102-169), on goroutine p.                                *)
(***************************************************************************)

\* A mutant: one package-level accumulator for every call.
SharedAccumulator(p) == 1

\* Whose rulesCounters the call on p uses: its own local (line 136).
Accumulator(p) == p

\* A mutant: the accumulator declared outside the loops and never cleared.
KeptRuleCounter(prev) == prev

\* rulesCounters := make(ruleCounter), once per chain (line 136).
NewRuleCounter(prev) == MakeRuleCounter

\* A mutant: an empty result passes for a success.
CheckEmptyMissing(e, ts) == e

\* Lines 106-108: no error and no table is an error too.
CheckEmpty(e, ts) == IF e = "nil" /\ DOMAIN ts = {} THEN "empty" ELSE e

\* A mutant: the collector remembers an earlier failure.
ScrapeFailedSticky(e) == e # "nil" \/ failures > 0

\* A mutant: the error is not looked at.
ScrapeNeverFailed(e) == FALSE

\* Line 110: err != nil.
ScrapeFailed(e) == e # "nil"

Send(p, ms) == metricChan' = [metricChan EXCEPT ![p] = @ \o ms]

\* Lines 103-108: the call starts, with a channel of its own; GetTables runs
\* on what iptables-save prints now.
CollectGetTables(p) ==
    /\ mainPc = "listening"
    /\ pc[p] \in {"idle", "returned"}
    /\ scrapes < MaxScrapes
    /\ \E in \in Inputs :
        LET r == GetTables(capture[1], in)
        IN  /\ input' = [input EXCEPT ![p] = in]
            /\ tables' = [tables EXCEPT ![p] = r.tables]
            /\ err' = [err EXCEPT ![p] = CheckEmpty(r.err, r.tables)]
    /\ metricChan' = [metricChan EXCEPT ![p] = <<>>]
    /\ scrapes' = scrapes + 1
    /\ pc' = [pc EXCEPT ![p] = "duration"]
    /\ UNCHANGED <<mainPc, captureRE, capture, failures, loopVars, foldVars>>

\* Line 109.
SendDuration(p) ==
    /\ pc[p] = "duration"
    /\ Send(p, <<DurationMetric>>)
    /\ pc' = [pc EXCEPT ![p] = "success"]
    /\ UNCHANGED <<mainVars, input, tables, err, loopVars, foldVars>>

\* Lines 110-115: scrape-success 0 and return, or scrape-success 1.
SendSuccess(p) ==
    /\ pc[p] = "success"
    /\ IF ScrapeFailed(err[p])
       THEN /\ Send(p, <<SuccessMetric(FALSE)>>)
            /\ failures' = failures + 1
            /\ pc' = [pc EXCEPT ![p] = "returned"]
            /\ UNCHANGED tablesLeft
       ELSE /\ Send(p, <<SuccessMetric(TRUE)>>)
            /\ tablesLeft' = [tablesLeft EXCEPT ![p] = DOMAIN tables[p]]
            /\ pc' = [pc EXCEPT ![p] = "tables"]
            /\ UNCHANGED failures
    /\ UNCHANGED <<mainPc, captureRE, capture, scrapes, input, tables, err,
                   tableName, chainsLeft, chainName, ruleIdx, rulesCounters,
                   keysLeft, foldVars>>

\* Line 117: the range over tables takes a next key, in any order, or ends,
\* and Collect returns.
NextTable(p) ==
    /\ pc[p] = "tables"
    /\ IF tablesLeft[p] = {}
       THEN /\ pc' = [pc EXCEPT ![p] = "returned"]
            /\ tableName' = [tableName EXCEPT ![p] = ""]
            /\ chainName' = [chainName EXCEPT ![p] = ""]
            /\ ruleIdx' = [ruleIdx EXCEPT ![p] = 0]
            /\ UNCHANGED <<tablesLeft, chainsLeft>>
       ELSE \E t \in tablesLeft[p] :
            /\ tableName' = [tableName EXCEPT ![p] = t]
            /\ tablesLeft' = [tablesLeft EXCEPT ![p] = @ \ {t}]
            /\ chainsLeft' = [chainsLeft EXCEPT ![p] = DOMAIN tables[p][t]]
            /\ pc' = [pc EXCEPT ![p] = "chains"]
            /\ UNCHANGED <<chainName, ruleIdx>>
    /\ UNCHANGED <<mainVars, input, tables, err, metricChan, rulesCounters,
                   keysLeft, foldVars>>

\* Lines 118-136: the range over the table takes a next chain, in any order:
\* its default-policy metrics are sent and its accumulator made.
NextChain(p) ==
    /\ pc[p] = "chains"
    /\ IF chainsLeft[p] = {}
       THEN /\ pc' = [pc EXCEPT ![p] = "tables"]
            /\ UNCHANGED <<chainName, chainsLeft, ruleIdx, rulesCounters, metricChan>>
       ELSE \E c \in chainsLeft[p] :
            /\ chainName' = [chainName EXCEPT ![p] = c]
            /\ chainsLeft' = [chainsLeft EXCEPT ![p] = @ \ {c}]
            /\ Send(p, DefaultMetrics(tableName[p], c, tables[p][tableName[p]][c]))
            /\ rulesCounters' = [rulesCounters EXCEPT ![Accumulator(p)] =
                                    NewRuleCounter(@)]
            /\ ruleIdx' = [ruleIdx EXCEPT ![p] = 1]
            /\ pc' = [pc EXCEPT ![p] = "rules"]
    /\ UNCHANGED <<mainVars, input, tables, err, tablesLeft, tableName,
                   keysLeft, foldVars>>

\* Lines 137-148: one iteration of the dedup loop, or its end.
MergeNextRule(p) ==
    /\ pc[p] = "rules"
    /\ LET rules == tables[p][tableName[p]][chainName[p]].Rules
           a == Accumulator(p)
       IN  IF ruleIdx[p] > Len(rules)
           THEN /\ keysLeft' = [keysLeft EXCEPT ![p] = DOMAIN rulesCounters[a]]
                /\ pc' = [pc EXCEPT ![p] = "emit"]
                /\ UNCHANGED <<ruleIdx, rulesCounters>>
           ELSE /\ rulesCounters' = [rulesCounters EXCEPT ![a] =
                                        MergeRule(@, rules[ruleIdx[p]])]
                /\ ruleIdx' = [ruleIdx EXCEPT ![p] = @ + 1]
                /\ UNCHANGED <<keysLeft, pc>>
    /\ UNCHANGED <<mainVars, input, tables, err, metricChan, tablesLeft,
                   tableName, chainsLeft, chainName, foldVars>>

\* Lines 149-166: the range over rulesCounters takes a next key, in any
\* order, and sends its two metrics; or ends.
SendRule(p) ==
    /\ pc[p] = "emit"
    /\ LET a == Accumulator(p)
       IN  IF keysLeft[p] \cap DOMAIN rulesCounters[a] = {}
           THEN /\ pc' = [pc EXCEPT ![p] = "chains"]
                /\ keysLeft' = [keysLeft EXCEPT ![p] = {}]
                /\ UNCHANGED metricChan
           ELSE \E ruleName \in keysLeft[p] \cap DOMAIN rulesCounters[a] :
                /\ Send(p, RuleMetrics(tableName[p], chainName[p], ruleName,
                                       rulesCounters[a][ruleName]))
                /\ keysLeft' = [keysLeft EXCEPT ![p] = @ \ {ruleName}]
                /\ UNCHANGED pc
    /\ UNCHANGED <<mainVars, input, tables, err, tablesLeft, tableName,
                   chainsLeft, chainName, ruleIdx, rulesCounters, foldVars>>

Collect(p) ==
    \/ CollectGetTables(p)
    \/ SendDuration(p)
    \/ SendSuccess(p)
    \/ NextTable(p)
    \/ NextChain(p)
    \/ MergeNextRule(p)
    \/ SendRule(p)

Next ==
    \/ NewCollector
    \/ Register
    \/ ListenAndServe
    \/ \E p \in Procs : Collect(p)

Spec == Init /\ [][Next]_vars

(***************************************************************************)
(* FoldSpec: GetTables' capture and Collect's aggregation of one chain,    *)
(* "INPUT" of table "filter", for every chain of up to MaxRules rules.     *)
(***************************************************************************)

SeqsUpTo(S, n) == UNION {[1..k -> S] : k \in 0..n}

FoldInit ==
    /\ captureRE = DefaultCaptureRE
    /\ ProcessInit
    /\ fCapture \in {DefaultCaptureRE, <<"allow">>}
    /\ fRaw \in SeqsUpTo(RawRules, MaxRules)
    /\ fRules = <<>>
    /\ fCounters = MakeRuleCounter
    /\ fSent = {}
    /\ fPc = "dumped"

\* iptables.GetTables: chain.Rules from the dumped rules.
FoldGetTables ==
    /\ fPc = "dumped"
    /\ fRules' = CaptureRules(fCapture, fRaw)
    /\ fPc' = "parsed"
    /\ UNCHANGED <<mainVars, callVars, fCapture, fRaw, fCounters, fSent>>

\* Lines 136-148.
FoldDedup ==
    /\ fPc = "parsed"
    /\ fCounters' = DedupRules(fRules)
    /\ fPc' = "deduped"
    /\ UNCHANGED <<mainVars, callVars, fCapture, fRaw, fRules, fSent>>

\* Lines 149-166: every key's two metrics.
FoldSend ==
    /\ fPc = "deduped"
    /\ fSent' = UNION {{RuleMetrics("filter", "INPUT", k, fCounters[k])[1],
                        RuleMetrics("filter", "INPUT", k, fCounters[k])[2]} :
                       k \in DOMAIN fCounters}
    /\ fPc' = "sent"
    /\ UNCHANGED <<mainVars, callVars, fCapture, fRaw, fRules, fCounters>>

FoldNext == FoldGetTables \/ FoldDedup \/ FoldSend

FoldSpec == FoldInit /\ [][FoldNext]_vars

(***************************************************************************)
(* Notions the properties are stated in.                                   *)
(***************************************************************************)

\* The identifiers that occur in a chain's rules.
IdsOf(rules) == {rules[i].Rule : i \in DOMAIN rules}

\* The rules of an identifier, in chain order.
RulesWith(rules, id) == SelectSeq(rules, LAMBDA r : r.Rule = id)

RECURSIVE ExactSum(_)
\* The integer sum of a sequence of counters.
ExactSum(ns) == IF ns = <<>> THEN Zero ELSE IntAdd(Head(ns), ExactSum(Tail(ns)))

RECURSIVE FloatSumFrom(_, _)
FloatSumFrom(acc, ns) ==
    IF ns = <<>> THEN acc ELSE FloatSumFrom(FAdd(acc, Float64(Head(ns))), Tail(ns))

\* The float64 sum of a non-empty sequence of counters, each converted to
\* float64, added left to right.
FloatSum(ns) == FloatSumFrom(Float64(Head(ns)), Tail(ns))

PacketsOf(rules) == [i \in DOMAIN rules |-> rules[i].Packets]

BytesOf(rules) == [i \in DOMAIN rules |-> rules[i].Bytes]

\* n <= 2^53: n and every sum of non-negative counters that adds up to it is
\* exactly representable as a float64.
AtMost2p53(n) == n.hi = 0 \/ (n.hi = 1 /\ n.lo = 0)

RECURSIVE SumValues(_)
\* The integer sum of the values of a set of metrics.
SumValues(ms) ==
    IF ms = {} THEN Zero
    ELSE LET m == CHOOSE x \in ms : TRUE
         IN  IntAdd(m.value, SumValues(ms \ {m}))

\* The sequence rules rearranged by the permutation f of its indices.
Permuted(rules, f) == [i \in DOMAIN rules |-> rules[f[i]]]

IndexPermutations(n) == {f \in [1..n -> 1..n] : \A i, j \in 1..n : f[i] = f[j] => i = j}

\* The indices at which the call on p sent a metric of family d with labels l.
SentAt(p, d, l) ==
    {i \in DOMAIN metricChan[p] :
        metricChan[p][i].desc = d /\ metricChan[p][i].labels = l}

\* The indices at which the call on p sent a metric of family d.
SentOf(p, d) == {i \in DOMAIN metricChan[p] : metricChan[p][i].desc = d}

RuleFamilies == {"iptables_rule_packets_total", "iptables_rule_bytes_total"}

DefaultFamilies == {"iptables_default_packets_total", "iptables_default_bytes_total"}

\* GetTables' result for the call on p.
Got(p) == GetTables(capture[1], input[p])

\* The call on p got no error and at least one table.
Succeeded(p) == Got(p).err = "nil" /\ DOMAIN Got(p).tables # {}

\* The call on p has started and returned.
Returned(p) == pc[p] = "returned"

(***************************************************************************)
(* Properties of the aggregation, under FoldSpec.                          *)
(***************************************************************************)

\* The metrics of family d sent for the chain.
FoldSentOf(d) == {m \in fSent : m.desc = d}

\* C4 as stated: the emitted packet values (and the emitted byte values) of a
\* chain add up to no more than the chain's rules' counters do, and to
\* exactly as much when the expression matched every rule.
C4_Conservation ==
    fPc = "sent" =>
        /\ IntLeq(SumValues(FoldSentOf("iptables_rule_packets_total")),
                  ExactSum(PacketsOf(fRaw)))
        /\ IntLeq(SumValues(FoldSentOf("iptables_rule_bytes_total")),
                  ExactSum(BytesOf(fRaw)))
        /\ Len(fRules) = Len(fRaw) =>
            /\ SumValues(FoldSentOf("iptables_rule_packets_total"))
                 = ExactSum(PacketsOf(fRaw))
            /\ SumValues(FoldSentOf("iptables_rule_bytes_total"))
                 = ExactSum(BytesOf(fRaw))

\* Conservation of one counter: d the family, raw the chain's counters.
ConservedUpTo2p53(d, raw) ==
    AtMost2p53(ExactSum(raw)) =>
        /\ IntLeq(SumValues(FoldSentOf(d)), ExactSum(raw))
        /\ Len(fRules) = Len(fRaw) => SumValues(FoldSentOf(d)) = ExactSum(raw)

\* C4 amended: for a counter whose total over the chain's rules is at most
\* 2^53, the emitted values add up to no more than that total, and to exactly
\* that total when the expression matched every rule.
C4_ConservationUpTo2p53 ==
    fPc = "sent" =>
        /\ ConservedUpTo2p53("iptables_rule_packets_total", PacketsOf(fRaw))
        /\ ConservedUpTo2p53("iptables_rule_bytes_total", BytesOf(fRaw))

\* C4's case: every rule matched, two rules merged, one left out of no entry.
C4_Witness ==
    /\ fPc = "sent"
    /\ Len(fRaw) = 3
    /\ Len(fRules) = 3
    /\ Cardinality(DOMAIN fCounters) = 2
    /\ AtMost2p53(ExactSum(BytesOf(fRaw)))

\* C5 as stated: with the default expression a chain gets as many entries as
\* it has rules, whatever the chain holds.
C5_OneEntryPerRule ==
    (fPc = "sent" /\ fCapture = DefaultCaptureRE) =>
        /\ Cardinality(FoldSentOf("iptables_rule_packets_total")) = Len(fRaw)
        /\ Cardinality(FoldSentOf("iptables_rule_bytes_total")) = Len(fRaw)

\* The distinct rule bodies of the dumped chain.
BodiesOf(raws) == {raws[i].Body : i \in DOMAIN raws}

\* C5 amended: with the default expression a chain gets one entry per
\* distinct rule body: as many entries as rules exactly when no two rules of
\* the chain have the same body.
C5_OneEntryPerBody ==
    (fPc = "sent" /\ fCapture = DefaultCaptureRE) =>
        /\ Cardinality(FoldSentOf("iptables_rule_packets_total"))
             = Cardinality(BodiesOf(fRaw))
        /\ Cardinality(FoldSentOf("iptables_rule_bytes_total"))
             = Cardinality(BodiesOf(fRaw))
        /\ {m.labels.rule : m \in fSent} = BodiesOf(fRaw)
        /\ (Cardinality(FoldSentOf("iptables_rule_packets_total")) = Len(fRaw))
             <=> (Cardinality(BodiesOf(fRaw)) = Len(fRaw))

\* C5's case: the default expression and a chain with a body twice.
C5_Witness ==
    /\ fPc = "sent"
    /\ fCapture = DefaultCaptureRE
    /\ Len(fRaw) = 3
    /\ Cardinality(BodiesOf(fRaw)) = 2

\* C9 as stated: the dedup loop yields the same entries for every order of
\* the chain's rules.
C9_OrderIndependent ==
    fPc = "deduped" =>
        \A f \in IndexPermutations(Len(fRules)) :
            DedupRules(Permuted(fRules, f)) = fCounters

\* C9 amended: for every order of the chain's rules the dedup loop yields the
\* same identifiers, and for each identifier the same packets (bytes) value
\* whenever the identifier's packets (bytes) total is at most 2^53.
C9_OrderIndependentUpTo2p53 ==
    fPc = "deduped" =>
        \A f \in IndexPermutations(Len(fRules)) :
            LET other == DedupRules(Permuted(fRules, f))
            IN  /\ DOMAIN other = DOMAIN fCounters
                /\ \A id \in DOMAIN fCounters :
                    /\ AtMost2p53(ExactSum(PacketsOf(RulesWith(fRules, id))))
                         => other[id].packets = fCounters[id].packets
                    /\ AtMost2p53(ExactSum(BytesOf(RulesWith(fRules, id))))
                         => other[id].bytes = fCounters[id].bytes

\* C9's case: three rules, two of one identifier with different counters.
C9_Witness ==
    /\ fPc = "deduped"
    /\ Len(fRules) = 3
    /\ Cardinality(DOMAIN fCounters) = 2
    /\ \E i, j \in 1..3 :
        /\ i # j
        /\ fRules[i].Rule = fRules[j].Rule
        /\ fRules[i].Packets # fRules[j].Packets

(***************************************************************************)
(* Properties of the process, under Spec.                                  *)
(***************************************************************************)

\* The chains of GetTables' result for the call on p, as <<table, chain>>.
ChainsOf(p) ==
    UNION {{<<t, c>> : c \in DOMAIN Got(p).tables[t]} : t \in DOMAIN Got(p).tables}

RulesOf(p, tc) == Got(p).tables[tc[1]][tc[2]].Rules

RuleLabels(tc, id) == [table |-> tc[1], chain |-> tc[2], rule |-> id]

\* The call on p sent the metric of family d with labels l once, with value v.
SentOnce(p, d, l, v) ==
    /\ Cardinality(SentAt(p, d, l)) = 1
    /\ \A i \in SentAt(p, d, l) : metricChan[p][i].value = v

\* Every rule metric the call on p sent is for an identifier of its chain.
OnlyOwnIdentifiers(p) ==
    \A i \in DOMAIN metricChan[p] :
        LET m == metricChan[p][i]
        IN  m.desc \in RuleFamilies =>
                /\ <<m.labels.table, m.labels.chain>> \in ChainsOf(p)
                /\ m.labels.rule
                     \in IdsOf(RulesOf(p, <<m.labels.table, m.labels.chain>>))

\* C1 as stated: a successful scrape sends, per chain and identifier, one
\* rule-packets and one rule-bytes metric whose value is the sum of the
\* counters of the chain's rules with that identifier (as a float64), and no
\* rule metric for an identifier of another chain or table.
C1_OneMetricPerIdentifierExactSum ==
    \A p \in Procs : (Returned(p) /\ Succeeded(p)) =>
        /\ \A tc \in ChainsOf(p) : \A id \in IdsOf(RulesOf(p, tc)) :
            LET same == RulesWith(RulesOf(p, tc), id)
            IN  /\ SentOnce(p, "iptables_rule_packets_total", RuleLabels(tc, id),
                            Float64(ExactSum(PacketsOf(same))))
                /\ SentOnce(p, "iptables_rule_bytes_total", RuleLabels(tc, id),
                            Float64(ExactSum(BytesOf(same))))
        /\ OnlyOwnIdentifiers(p)

\* C1 amended: a successful scrape sends, per chain and identifier, one
\* rule-packets and one rule-bytes metric whose value is the float64 sum, in
\* chain order, of the float64 counters of the chain's rules with that
\* identifier, which is their exact sum whenever that sum is at most 2^53;
\* and no rule metric for an identifier of another chain or table.
C1_OneMetricPerIdentifierFloatSum ==
    \A p \in Procs : (Returned(p) /\ Succeeded(p)) =>
        /\ \A tc \in ChainsOf(p) : \A id \in IdsOf(RulesOf(p, tc)) :
            LET same == RulesWith(RulesOf(p, tc), id)
            IN  /\ SentOnce(p, "iptables_rule_packets_total", RuleLabels(tc, id),
                            FloatSum(PacketsOf(same)))
                /\ SentOnce(p, "iptables_rule_bytes_total", RuleLabels(tc, id),
                            FloatSum(BytesOf(same)))
                /\ AtMost2p53(ExactSum(PacketsOf(same)))
                     => FloatSum(PacketsOf(same)) = ExactSum(PacketsOf(same))
                /\ AtMost2p53(ExactSum(BytesOf(same)))
                     => FloatSum(BytesOf(same)) = ExactSum(BytesOf(same))
        /\ OnlyOwnIdentifiers(p)

\* C1's case: a scrape of two tables returned; both hold a chain INPUT with
\* the identifier "allow", which merges rules in one and not in the other.
C1_Witness ==
    \E p \in Procs :
        /\ Returned(p)
        /\ input[p].tables = DumpTwoTables
        /\ capture = << <<"allow">> >>
        /\ SentAt(p, "iptables_rule_packets_total",
                  [table |-> "nat", chain |-> "INPUT", rule |-> <<"allow">>]) # {}
        /\ SentAt(p, "iptables_rule_packets_total",
                  [table |-> "filter", chain |-> "INPUT", rule |-> <<"allow">>]) # {}

\* The call on p sent scrape duration, then scrape-success 0, and no more.
OnlyFailureSent(p) ==
    /\ Len(metricChan[p]) = 2
    /\ metricChan[p][1].desc = "iptables_scrape_duration_seconds"
    /\ metricChan[p][2].desc = "iptables_scrape_success"
    /\ metricChan[p][2].value = Zero

\* C2: a scrape whose GetTables returns an error sends scrape duration and
\* scrape-success 0, and no default-policy or rule metric.
C2_ErrorSendsOnlyFailure ==
    \A p \in Procs : (Returned(p) /\ Got(p).err # "nil") => OnlyFailureSent(p)

\* C2's case: a scrape of a malformed dump returned.
C2_Witness ==
    \E p \in Procs :
        Returned(p) /\ input[p].kind = "malformed" /\ Len(metricChan[p]) = 2

\* C3: a scrape whose GetTables returns no error and no table is a failed
\* scrape: scrape duration and scrape-success 0 (never 1), and no more.
C3_NoTablesIsFailure ==
    \A p \in Procs :
        (Returned(p) /\ Got(p).err = "nil" /\ DOMAIN Got(p).tables = {})
            => (OnlyFailureSent(p) /\ err[p] = "empty")

\* C3's case: a scrape that read no output returned.
C3_Witness ==
    \E p \in Procs :
        /\ Returned(p)
        /\ input[p] = [kind |-> "dump", tables |-> NoTables]
        /\ Len(metricChan[p]) = 2

\* C6: with a capture expression that does not compile the process panics in
\* NewCollector: it never registers the collector, never listens and never
\* runs Collect.
C6_NoScrapeWithoutPattern ==
    /\ (mainPc \in {"constructed", "registered", "listening"} \/ scrapes > 0
            \/ \E p \in Procs : pc[p] # "idle")
         => (RegexpValid(captureRE) /\ capture = <<captureRE>>)
    /\ ~RegexpValid(captureRE) => mainPc \in {"start", "panicked"}

\* C6's case: the expression did not compile and NewCollector panicked.
C6_Witness == mainPc = "panicked" /\ ~RegexpValid(captureRE) /\ scrapes = 0

\* What a Collect call sends when it runs alone on GetTables' result r: the
\* set of its metrics.
MetricsFor(r) ==
    IF r.err # "nil" \/ DOMAIN r.tables = {}
    THEN { [desc |-> "iptables_scrape_duration_seconds", labels |-> <<>>,
            value |-> "seconds"],
           [desc |-> "iptables_scrape_success", labels |-> <<>>, value |-> Zero] }
    ELSE { [desc |-> "iptables_scrape_duration_seconds", labels |-> <<>>,
            value |-> "seconds"],
           [desc |-> "iptables_scrape_success", labels |-> <<>>, value |-> One] }
         \cup UNION { UNION {
              LET ch == r.tables[t][c]
                  dl == [table |-> t, chain |-> c, policy |-> ch.Policy]
              IN  { [desc |-> "iptables_default_packets_total", labels |-> dl,
                     value |-> Float64(ch.Packets)],
                    [desc |-> "iptables_default_bytes_total", labels |-> dl,
                     value |-> Float64(ch.Bytes)] }
                  \cup UNION {
                      LET same == RulesWith(ch.Rules, id)
                          rl == [table |-> t, chain |-> c, rule |-> id]
                      IN  { [desc |-> "iptables_rule_packets_total", labels |-> rl,
                             value |-> FloatSum(PacketsOf(same))],
                            [desc |-> "iptables_rule_bytes_total", labels |-> rl,
                             value |-> FloatSum(BytesOf(same))] }
                      : id \in IdsOf(ch.Rules) }
              : c \in DOMAIN r.tables[t] } : t \in DOMAIN r.tables }

\* The call on p sent exactly the metrics of its own GetTables result, each
\* once.
SentItsOwn(p) ==
    /\ {metricChan[p][i] : i \in DOMAIN metricChan[p]} = MetricsFor(Got(p))
    /\ Len(metricChan[p]) = Cardinality(MetricsFor(Got(p)))

\* C7: whatever calls came before, failed ones included, a Collect call in
\* progress can take its next step, and a call that has returned sent exactly
\* the metrics of its own GetTables result: scrape-success 1 with every
\* default-policy and rule metric when the result is valid and not empty.
C7_ScrapesIndependent ==
    \A p \in Procs :
        /\ pc[p] \notin {"idle", "returned"} => ENABLED Collect(p)
        /\ Returned(p) => SentItsOwn(p)
        /\ (Returned(p) /\ Succeeded(p)) =>
              /\ metricChan[p][2].value = One
              /\ Len(metricChan[p]) > 2

\* C7's case: goroutine 1 ran both calls, one after the other; the first
\* failed and the second returned with scrape-success 1.
C7_Witness ==
    /\ scrapes = 2
    /\ failures = 1
    /\ pc[2] = "idle"
    /\ Returned(1)
    /\ Succeeded(1)
    /\ Len(metricChan[1]) > 2

\* The rules of the chain the call on p is at.
CurrentRules(p) == tables[p][tableName[p]][chainName[p]].Rules

\* C8: two Collect calls that interleave each send exactly the metrics of
\* their own GetTables result; the compiled expression stays as NewCollector
\* set it; and a call's accumulator holds its own chain's rules merged so
\* far, whatever the other call does.
C8_ConcurrentScrapesIndependent ==
    /\ mainPc = "listening" => capture = <<captureRE>>
    /\ \A p \in Procs :
        /\ Returned(p) => SentItsOwn(p)
        /\ pc[p] = "rules" =>
              rulesCounters[p]
                = FoldRules(MakeRuleCounter, SubSeq(CurrentRules(p), 1, ruleIdx[p] - 1))
        /\ pc[p] = "emit" =>
              rulesCounters[p] = FoldRules(MakeRuleCounter, CurrentRules(p))

\* C8's case: both calls are sending rule metrics at once, from different
\* accumulators.
C8_Witness ==
    /\ pc[1] = "emit"
    /\ pc[2] = "emit"
    /\ DOMAIN rulesCounters[1] # {}
    /\ DOMAIN rulesCounters[2] # {}
    /\ rulesCounters[1] # rulesCounters[2]
    /\ input[1] # input[2]

\* C10: every call sends scrape duration first and scrape success second,
\* once each; scrape success is 0 or 1, and 1 exactly when GetTables returned
\* no error and a table; then every chain gets one default-policy packets and
\* one default-policy bytes metric labeled table, chain and policy, sent
\* before the chain's rule metrics.
C10_EmissionOrder ==
    \A p \in Procs :
        LET ch == metricChan[p]
        IN  /\ pc[p] \notin {"idle", "duration"} => Len(ch) >= 1
            /\ Returned(p) => Len(ch) >= 2
            /\ Len(ch) >= 1 => ch[1].desc = "iptables_scrape_duration_seconds"
            /\ Len(ch) >= 2 =>
                  /\ ch[2].desc = "iptables_scrape_success"
                  /\ ch[2].value \in {Zero, One}
                  /\ ch[2].value = One <=> Succeeded(p)
            /\ \A i \in DOMAIN ch :
                  i > 2 => ch[i].desc \in DefaultFamilies \cup RuleFamilies
            /\ (Returned(p) /\ Succeeded(p)) =>
                  /\ \A tc \in ChainsOf(p) : \A d \in DefaultFamilies :
                        Cardinality(SentAt(p, d,
                            [table |-> tc[1], chain |-> tc[2],
                             policy |-> Got(p).tables[tc[1]][tc[2]].Policy])) = 1
                  /\ \A d \in DefaultFamilies :
                        Cardinality(SentOf(p, d)) = Cardinality(ChainsOf(p))
            /\ \A j \in DOMAIN ch : ch[j].desc \in RuleFamilies =>
                  \A d \in DefaultFamilies : \E i \in 1..(j - 1) :
                      /\ ch[i].desc = d
                      /\ ch[i].labels.table = ch[j].labels.table
                      /\ ch[i].labels.chain = ch[j].labels.chain

\* C10's case: a scrape of three chains returned with scrape-success 1.
C10_Witness ==
    \E p \in Procs :
        /\ Returned(p)
        /\ Succeeded(p)
        /\ Cardinality(ChainsOf(p)) = 3
        /\ Cardinality(SentOf(p, "iptables_default_packets_total")) = 3
        /\ SentOf(p, "iptables_rule_bytes_total") # {}

====
